---- MODULE Spec2Model ----
(***************************************************************************)
(* A model of setup.py of nvdiffrast-torch: make_extension(gl), the local  *)
(* function find_cl_path, and the list comprehension that builds           *)
(* ext_modules.                                                            *)
(*                                                                         *)
(* Representation.  A Python string that the code builds by concatenation  *)
(* is a sequence of chunks and + on strings is \o.  A directory matched by *)
(* the glob pattern of line 26 is a record of the pattern's parts: the     *)
(* root, the two names matched by * (vs, msvc; sequences of characters)    *)
(* and the edition.  PATH is the list of its ;-separated entries, so that  *)
(* += ';' + p is Append.  A source file name is a record dir/stem/ext      *)
(* whose concatenation is the literal of the code.                         *)
(***************************************************************************)
EXTENDS Integers, Sequences, FiniteSets, TLC

\* ------------------------------------------------------------------ bounds

\* Largest number of directories matching the glob pattern in a simulated
\* filesystem of SpecLocate.
MaxInstalls == 3

\* Largest number of make_extension calls one process makes under Spec.
MaxCalls == 2

\* ------------------------------------------------------- the filesystem

ProgramFiles == "C:\\Program Files"
ProgramFilesX86 == "C:\\Program Files (x86)"
Roots == {ProgramFiles, ProgramFilesX86}

\* Line 25: the editions, in the order the loop visits them.
Editions == <<"Enterprise", "Professional", "BuildTools", "Community">>

\* Names the first * of the pattern can match (the Visual Studio directory).
VsNames == {<<"2", "0", "1", "9">>, <<"2", "0", "2", "2">>}

\* Names the second * of the pattern can match (the MSVC toolset directory).
\* "14.9" sorts after "14.10" as a string although it is the lower version.
MsvcNames == {<<"1", "4", ".", "9">>, <<"1", "4", ".", "1", "0">>}

\* Every directory the pattern of line 26 can match under either root.
AllInstallDirs ==
    [root : Roots, vs : VsNames, edition : {Editions[i] : i \in 1..Len(Editions)},
     msvc : MsvcNames]

\* Python's None as a value of cl_path.
None == [root |-> "", vs |-> <<>>, edition |-> "None", msvc |-> <<>>]

\* A directory of the user's PATH that is no Visual Studio directory.
UserDir == [root |-> "C:\\Windows\\system32", vs |-> <<>>, edition |-> "", msvc |-> <<>>]

\* The code point of a character of a directory name.
Ord(ch) ==
    CASE ch = "." -> 46
      [] ch = "0" -> 48
      [] ch = "1" -> 49
      [] ch = "2" -> 50
      [] ch = "4" -> 52
      [] ch = "9" -> 57
      [] ch = "\\" -> 92

\* Python's < on str: by code point at the first difference, a proper
\* prefix first.
StrLess(a, b) ==
    LET n == IF Len(a) < Len(b) THEN Len(a) ELSE Len(b)
    IN  \/ \E i \in 1..n : /\ \A j \in 1..(i - 1) : a[j] = b[j]
                           /\ Ord(a[i]) < Ord(b[i])
        \/ /\ \A j \in 1..n : a[j] = b[j]
           /\ Len(a) < Len(b)

\* The part of a matched path in which two matches of one glob call differ:
\* root and edition are literal in the pattern, so the paths are
\*   <root>\Microsoft Visual Studio\ vs \<edition>\VC\Tools\MSVC\ msvc \bin\Hostx64\x64
\* and their order is that of vs \ msvc \ (a name holds no backslash, so two
\* different vs names already differ inside "vs \").
PathKey(d) == d.vs \o <<"\\">> \o d.msvc \o <<"\\">>

\* Lines 27-28: glob.glob(root + vs_relative_path) for one edition.
Glob(files, root, edition) ==
    {d \in files : d.root = root /\ d.edition = edition}

\* Lines 27-28: sorted(..., reverse=True).
RECURSIVE SortedReverse(_)
SortedReverse(S) ==
    IF S = {} THEN <<>>
    ELSE LET m == CHOOSE x \in S : \A y \in S : ~StrLess(PathKey(x), PathKey(y))
         IN  <<m>> \o SortedReverse(S \ {m})

\* Lines 27-28: the candidate list of one edition.
EditionPaths(files, edition) ==
    SortedReverse(Glob(files, ProgramFiles, edition))
        \o SortedReverse(Glob(files, ProgramFilesX86, edition))

\* Lines 25-30 from the i-th edition on; falling off the loop returns None.
RECURSIVE FindFrom(_, _)
FindFrom(files, i) ==
    IF i > Len(Editions) THEN None
    ELSE LET paths == EditionPaths(files, Editions[i])
         IN  IF paths # <<>> THEN paths[1] ELSE FindFrom(files, i + 1)

\* A locator that takes the newest toolset of any edition.
find_cl_path_by_version(files) ==
    LET all == SortedReverse(files)
    IN  IF all # <<>> THEN all[1] ELSE None

\* Lines 23-30.
find_cl_path(files) == FindFrom(files, 1)

\* A test of line 35 that never sees None.
cl_path_never_None(cl) == FALSE

\* Line 35: cl_path is None.
cl_path_is_None(cl) == cl = None

\* ------------------------------------------------------------ the state

VARIABLES
    os_name,        \* os.name
    environ,        \* os.environ: a function from the names that are set
    initial,        \* the environment state when the process started (history)
    fs,             \* the directories that match the pattern of line 26
    clDirs,         \* the directories that hold a cl.exe
    vc_available,   \* distutils._msvccompiler._get_vc_env can be imported
    vc_wrapped,     \* hasattr(_get_vc_env, '__wrapped__')
    vc_layers,      \* lru_cache layers make_extension has put around _get_vc_env
    frame,          \* the locals and the position of each running make_extension
    ncalls,         \* calls of make_extension started so far
    prev,           \* the environment state when the latest call was entered (history)
    searches,       \* calls of find_cl_path so far (history)
    warnings,       \* warnings logged so far
    pending,        \* line 114: the values of gl still to be iterated
    results,        \* line 114: the list the comprehension has built so far
    ext_modules,    \* lines 15, 114: the module-level list
    aborted         \* an exception has left the script

vars == <<os_name, environ, initial, fs, clDirs, vc_available, vc_wrapped,
          vc_layers, frame, ncalls, prev, searches, warnings, pending, results,
          ext_modules, aborted>>

\* One activation of make_extension per slot; the sequential drivers use slot 1.
Slots == {1, 2}

\* Line 81: the fixed architecture list.
ArchList == <<"8.0 8.6 8.7 8.9 9.0">>

\* Values of LD_PRELOAD the user may have set, as chunks.
PreloadValues == {<<"/usr/lib/", "libfoo", ".so">>, <<"/usr/lib/", "libGLEW", ".so.2.1">>}

\* Python's (needle in s) for a needle that is one chunk of s or of none.
Contains(needle, s) == \E i \in 1..Len(s) : s[i] = needle

\* os.environ.get(name, '')
EnvGet(env, name) == IF name \in DOMAIN env THEN env[name] ELSE <<>>

\* os.environ[name] = value
EnvSet(env, name, value) ==
    [n \in DOMAIN env \cup {name} |-> IF n = name THEN value ELSE env[n]]

\* os.system("where cl.exe >nul 2>nul") != 0: where looks for cl.exe in the
\* directories of PATH (the child process inherits os.environ) and in the
\* current directory, which UserDir stands for as well.
cl_not_on_path(env, cls) == ~ \E i \in 1..Len(env["PATH"]) : env["PATH"][i] \in cls

\* A path update that replaces PATH by the compiler directory.
path_replaced(path, cl) == <<cl>>

\* Line 37: the value of os.environ['PATH'] + ';' + cl_path.
path_plus(path, cl) == Append(path, cl)

\* Line 22.
LibDir == <<"dirname(__file__)", "\\..\\lib">>

\* Link flags that ignore the platform.
LinkFlagsPosixOnly(gl, os, lib_dir) ==
    IF gl THEN << <<"-lGL">>, <<"-lEGL">> >> ELSE <<>>

\* Lines 43-49.
LinkFlags(gl, os, lib_dir) ==
    IF gl
    THEN IF os = "posix" THEN << <<"-lGL">>, <<"-lEGL">> >>
         ELSE IF os = "nt"
              THEN LET libs == <<"gdi32", "opengl32", "user32", "setgpu">>
                   IN  << <<"/LIBPATH:">> \o lib_dir >>
                           \o [i \in 1..Len(libs) |-> <<"/DEFAULTLIB:", libs[i]>>]
              ELSE <<>>
    ELSE <<>>

\* Line 40.
Opts == << <<"-DNVDR_TORCH">> >>

Src(dir, stem, ext) == [dir |-> dir, stem |-> stem, ext |-> ext]

\* The rasterizer-only list with the two kernel files under their old names.
SourceFilesUnrenamed(gl) ==
    IF gl
    THEN << Src("../common/", "common", ".cpp"),
            Src("../common/", "glutil", ".cpp"),
            Src("../common/", "rasterize_gl", ".cpp"),
            Src("", "torch_bindings_gl", ".cpp"),
            Src("", "torch_rasterize_gl", ".cpp") >>
    ELSE << Src("../common/cudaraster/impl/", "Buffer", ".cpp"),
            Src("../common/cudaraster/impl/", "CudaRaster", ".cpp"),
            Src("../common/cudaraster/impl/", "RasterImpl", ".cu"),
            Src("../common/cudaraster/impl/", "RasterImpl", ".cpp"),
            Src("../common/", "common", ".cpp"),
            Src("../common/", "rasterize", ".cu"),
            Src("../common/", "interpolate", ".cu"),
            Src("../common/", "texture", ".cu"),
            Src("../common/", "texture", ".cpp"),
            Src("../common/", "antialias", ".cu"),
            Src("", "torch_bindings", ".cpp"),
            Src("", "torch_rasterize", ".cpp"),
            Src("", "torch_interpolate", ".cpp"),
            Src("", "torch_texture", ".cpp"),
            Src("", "torch_antialias", ".cpp") >>

\* Lines 53-78.
SourceFiles(gl) ==
    IF gl
    THEN << Src("../common/", "common", ".cpp"),
            Src("../common/", "glutil", ".cpp"),
            Src("../common/", "rasterize_gl", ".cpp"),
            Src("", "torch_bindings_gl", ".cpp"),
            Src("", "torch_rasterize_gl", ".cpp") >>
    ELSE << Src("../common/cudaraster/impl/", "Buffer", ".cpp"),
            Src("../common/cudaraster/impl/", "CudaRaster", ".cpp"),
            Src("../common/cudaraster/impl/", "RasterImpl_kernel", ".cu"),
            Src("../common/cudaraster/impl/", "RasterImpl", ".cpp"),
            Src("../common/", "common", ".cpp"),
            Src("../common/", "rasterize", ".cu"),
            Src("../common/", "interpolate", ".cu"),
            Src("../common/", "texture_kernel", ".cu"),
            Src("../common/", "texture", ".cpp"),
            Src("../common/", "antialias", ".cu"),
            Src("", "torch_bindings", ".cpp"),
            Src("", "torch_rasterize", ".cpp"),
            Src("", "torch_interpolate", ".cpp"),
            Src("", "torch_texture", ".cpp"),
            Src("", "torch_antialias", ".cpp") >>

\* Line 88.
PluginName(gl) == <<"nvdiffrast_plugin">> \o (IF gl THEN <<"_gl">> ELSE <<>>)

\* os.sep
Sep(os) == IF os = "nt" THEN "\\" ELSE "/"

\* Line 105: os.path.join("nvdiffrast/torch", fn) for each relative fn.
SourcePaths(files, os) ==
    [i \in 1..Len(files) |->
        [base |-> "nvdiffrast/torch", sep |-> Sep(os), dir |-> files[i].dir,
         stem |-> files[i].stem, ext |-> files[i].ext]]

\* Lines 106-111.
CUDAExtension(name, sources, extra_link_args, extra_compile_args) ==
    [kind |-> "CUDAExtension", name |-> name, sources |-> sources,
     extra_link_args |-> extra_link_args, extra_compile_args |-> extra_compile_args,
     msg |-> ""]

\* Line 36.
RuntimeError ==
    [kind |-> "RuntimeError", name |-> <<>>, sources |-> <<>>, extra_link_args |-> <<>>,
     extra_compile_args |-> [cxx |-> <<>>, nvcc |-> <<>>],
     msg |-> "Could not locate a supported Microsoft Visual C++ installation"]

\* No value yet.
NoResult ==
    [kind |-> "None", name |-> <<>>, sources |-> <<>>, extra_link_args |-> <<>>,
     extra_compile_args |-> [cxx |-> <<>>, nvcc |-> <<>>], msg |-> ""]

\* A slot in which make_extension is not running and has not run.
IdleFrame ==
    [pc |-> "idle", gl |-> FALSE, lib_dir |-> <<>>, cl_path |-> None, path_tmp |-> <<>>,
     fn_tmp |-> 0, opts |-> <<>>, ldflags |-> <<>>, source_files |-> <<>>,
     plugin_name |-> <<>>, ret |-> NoResult, log |-> <<>>]

\* What the claims call the process environment state.
EnvState ==
    [environ |-> environ, vc_wrapped |-> vc_wrapped, vc_layers |-> vc_layers]

\* ------------------------------------------------------- control flow

\* The statements of make_extension in the order the claims give them: the
\* hazard guard first, then the toolchain, the sources and the flags.
StatementsGuardFirst ==
    <<"preload", "telemetry", "probe", "wrap_get", "wrap_set", "start", "where", "find",
      "path_get", "path_set", "sources", "flags", "arch", "emit">>

\* Lines 17-112: the statements of make_extension in program order.
\*   start     18-22   assert, os.name test, lib_dir
\*   where     33      os.system("where cl.exe ...")
\*   find      34-36   find_cl_path(), raise
\*   path_get  37      the read of os.environ['PATH']
\*   path_set  37      the write of os.environ['PATH']
\*   flags     40-49   opts, ldflags
\*   sources   53-78   source_files
\*   arch      81      TORCH_CUDA_ARCH_LIST
\*   preload   84-88   the LD_PRELOAD warning, plugin_name
\*   telemetry 91-93   os.name test, VSCMD_SKIP_SENDTELEMETRY
\*   probe     96-99   the imports and the hasattr test
\*   wrap_get  100     the read of _get_vc_env and the lru_cache call
\*   wrap_set  100     the write of _get_vc_env
\*   emit      105-112 source_paths, CUDAExtension, return
Statements ==
    <<"start", "where", "find", "path_get", "path_set", "flags", "sources", "arch",
      "preload", "telemetry", "probe", "wrap_get", "wrap_set", "emit">>

\* The position of a statement in the function body.
Pos(label) == CHOOSE i \in 1..Len(Statements) : Statements[i] = label

\* The statement control reaches after label when nothing jumps.
Succ(label) ==
    IF Pos(label) = Len(Statements) THEN "returned" ELSE Statements[Pos(label) + 1]

\* Line 17: the activation record when make_extension(g) is entered.
EntryFrame(g) == [IdleFrame EXCEPT !.pc = Statements[1], !.gl = g]

\* A test of line 99 that never finds the marker.
needs_wrap_always(available, wrapped) == available

\* Lines 96-99: the imports succeed and _get_vc_env has no __wrapped__.
needs_wrap(available, wrapped) == available /\ ~wrapped

\* ------------------------------------------------------------ the steps

\* Lines 18-22.
Start(c) ==
    /\ frame[c].pc = "start"
    /\ frame' = [frame EXCEPT ![c] =
                    [@ EXCEPT !.pc = IF os_name = "nt" THEN Succ("start")
                                     ELSE Succ("path_set"),
                              !.lib_dir = IF os_name = "nt" THEN LibDir ELSE <<>>,
                              !.log = Append(@, "start")]]
    /\ UNCHANGED <<os_name, environ, initial, fs, clDirs, vc_available, vc_wrapped,
                   vc_layers, ncalls, prev, searches, warnings, pending, results,
                   ext_modules, aborted>>

\* Line 33.
Where(c) ==
    /\ frame[c].pc = "where"
    /\ frame' = [frame EXCEPT ![c] =
                    [@ EXCEPT !.pc = IF cl_not_on_path(environ, clDirs) THEN Succ("where")
                                     ELSE Succ("path_set"),
                              !.log = Append(@, "where")]]
    /\ UNCHANGED <<os_name, environ, initial, fs, clDirs, vc_available, vc_wrapped,
                   vc_layers, ncalls, prev, searches, warnings, pending, results,
                   ext_modules, aborted>>

\* Lines 34-36.
Find(c) ==
    /\ frame[c].pc = "find"
    /\ LET cl == find_cl_path(fs)
       IN  frame' = [frame EXCEPT ![c] =
                        [@ EXCEPT !.cl_path = cl,
                                  !.pc = IF cl_path_is_None(cl) THEN "raised"
                                         ELSE Succ("find"),
                                  !.ret = IF cl_path_is_None(cl) THEN RuntimeError ELSE @,
                                  !.log = Append(@, "find")]]
    /\ searches' = searches + 1
    /\ UNCHANGED <<os_name, environ, initial, fs, clDirs, vc_available, vc_wrapped,
                   vc_layers, ncalls, prev, warnings, pending, results, ext_modules,
                   aborted>>

\* Line 37, the right-hand side: os.environ['PATH'] is read.
PathGet(c) ==
    /\ frame[c].pc = "path_get"
    /\ frame' = [frame EXCEPT ![c] =
                    [@ EXCEPT !.path_tmp = path_plus(environ["PATH"], frame[c].cl_path),
                              !.pc = Succ("path_get"),
                              !.log = Append(@, "path_get")]]
    /\ UNCHANGED <<os_name, environ, initial, fs, clDirs, vc_available, vc_wrapped,
                   vc_layers, ncalls, prev, searches, warnings, pending, results,
                   ext_modules, aborted>>

\* Line 37, the store into os.environ['PATH'].
PathSet(c) ==
    /\ frame[c].pc = "path_set"
    /\ environ' = EnvSet(environ, "PATH", frame[c].path_tmp)
    /\ frame' = [frame EXCEPT ![c] =
                    [@ EXCEPT !.path_tmp = <<>>,
                              !.pc = Succ("path_set"),
                              !.log = Append(@, "path_set")]]
    /\ UNCHANGED <<os_name, initial, fs, clDirs, vc_available, vc_wrapped, vc_layers,
                   ncalls, prev, searches, warnings, pending, results, ext_modules,
                   aborted>>

\* Lines 40-49.
Flags(c) ==
    /\ frame[c].pc = "flags"
    /\ frame' = [frame EXCEPT ![c] =
                    [@ EXCEPT !.opts = Opts,
                              !.ldflags = LinkFlags(frame[c].gl, os_name, frame[c].lib_dir),
                              !.pc = Succ("flags"),
                              !.log = Append(@, "flags")]]
    /\ UNCHANGED <<os_name, environ, initial, fs, clDirs, vc_available, vc_wrapped,
                   vc_layers, ncalls, prev, searches, warnings, pending, results,
                   ext_modules, aborted>>

\* Lines 53-78.
Sources(c) ==
    /\ frame[c].pc = "sources"
    /\ frame' = [frame EXCEPT ![c] =
                    [@ EXCEPT !.source_files = SourceFiles(frame[c].gl),
                              !.pc = Succ("sources"),
                              !.log = Append(@, "sources")]]
    /\ UNCHANGED <<os_name, environ, initial, fs, clDirs, vc_available, vc_wrapped,
                   vc_layers, ncalls, prev, searches, warnings, pending, results,
                   ext_modules, aborted>>

\* Line 81.
Arch(c) ==
    /\ frame[c].pc = "arch"
    /\ environ' = EnvSet(environ, "TORCH_CUDA_ARCH_LIST", ArchList)
    /\ frame' = [frame EXCEPT ![c] =
                    [@ EXCEPT !.pc = Succ("arch"), !.log = Append(@, "arch")]]
    /\ UNCHANGED <<os_name, initial, fs, clDirs, vc_available, vc_wrapped, vc_layers,
                   ncalls, prev, searches, warnings, pending, results, ext_modules,
                   aborted>>

\* Lines 84-88.
Preload(c) ==
    /\ frame[c].pc = "preload"
    /\ warnings' = IF /\ frame[c].gl
                      /\ os_name = "posix"
                      /\ Contains("libGLEW", EnvGet(environ, "LD_PRELOAD"))
                   THEN warnings + 1 ELSE warnings
    /\ frame' = [frame EXCEPT ![c] =
                    [@ EXCEPT !.plugin_name = PluginName(frame[c].gl),
                              !.pc = Succ("preload"),
                              !.log = Append(@, "preload")]]
    /\ UNCHANGED <<os_name, environ, initial, fs, clDirs, vc_available, vc_wrapped,
                   vc_layers, ncalls, prev, searches, pending, results, ext_modules,
                   aborted>>

\* Lines 91-93.
Telemetry(c) ==
    /\ frame[c].pc = "telemetry"
    /\ environ' = IF os_name = "nt"
                  THEN EnvSet(environ, "VSCMD_SKIP_SENDTELEMETRY", <<"1">>)
                  ELSE environ
    /\ frame' = [frame EXCEPT ![c] =
                    [@ EXCEPT !.pc = IF os_name = "nt" THEN Succ("telemetry")
                                     ELSE Succ("wrap_set"),
                              !.log = Append(@, "telemetry")]]
    /\ UNCHANGED <<os_name, initial, fs, clDirs, vc_available, vc_wrapped, vc_layers,
                   ncalls, prev, searches, warnings, pending, results, ext_modules,
                   aborted>>

\* Lines 96-99 and, when an import or the attribute lookup fails, 101-102.
Probe(c) ==
    /\ frame[c].pc = "probe"
    /\ frame' = [frame EXCEPT ![c] =
                    [@ EXCEPT !.pc = IF needs_wrap(vc_available, vc_wrapped)
                                     THEN Succ("probe") ELSE Succ("wrap_set"),
                              !.log = Append(@, "probe")]]
    /\ UNCHANGED <<os_name, environ, initial, fs, clDirs, vc_available, vc_wrapped,
                   vc_layers, ncalls, prev, searches, warnings, pending, results,
                   ext_modules, aborted>>

\* Line 100, the right-hand side: functools.lru_cache()(_get_vc_env) around
\* the routine as it is now.
WrapGet(c) ==
    /\ frame[c].pc = "wrap_get"
    /\ frame' = [frame EXCEPT ![c] =
                    [@ EXCEPT !.fn_tmp = vc_layers + 1,
                              !.pc = Succ("wrap_get"),
                              !.log = Append(@, "wrap_get")]]
    /\ UNCHANGED <<os_name, environ, initial, fs, clDirs, vc_available, vc_wrapped,
                   vc_layers, ncalls, prev, searches, warnings, pending, results,
                   ext_modules, aborted>>

\* Line 100, the store into distutils._msvccompiler._get_vc_env; the cache
\* object carries __wrapped__.
WrapSet(c) ==
    /\ frame[c].pc = "wrap_set"
    /\ vc_layers' = frame[c].fn_tmp
    /\ vc_wrapped' = TRUE
    /\ frame' = [frame EXCEPT ![c] =
                    [@ EXCEPT !.fn_tmp = 0,
                              !.pc = Succ("wrap_set"),
                              !.log = Append(@, "wrap_set")]]
    /\ UNCHANGED <<os_name, environ, initial, fs, clDirs, vc_available, ncalls, prev,
                   searches, warnings, pending, results, ext_modules, aborted>>

\* Lines 105-112.
Emit(c) ==
    /\ frame[c].pc = "emit"
    /\ frame' = [frame EXCEPT ![c] =
                    [@ EXCEPT !.ret = CUDAExtension(
                                  frame[c].plugin_name,
                                  SourcePaths(frame[c].source_files, os_name),
                                  frame[c].ldflags,
                                  [cxx |-> frame[c].opts,
                                   nvcc |-> frame[c].opts \o << <<"-lineinfo">> >>]),
                              !.pc = Succ("emit"),
                              !.log = Append(@, "emit")]]
    /\ UNCHANGED <<os_name, environ, initial, fs, clDirs, vc_available, vc_wrapped,
                   vc_layers, ncalls, prev, searches, warnings, pending, results,
                   ext_modules, aborted>>

\* One step of the make_extension running in slot c.
Step(c) ==
    \/ Start(c)
    \/ Where(c)
    \/ Find(c)
    \/ PathGet(c)
    \/ PathSet(c)
    \/ Flags(c)
    \/ Sources(c)
    \/ Arch(c)
    \/ Preload(c)
    \/ Telemetry(c)
    \/ Probe(c)
    \/ WrapGet(c)
    \/ WrapSet(c)
    \/ Emit(c)

\* ----------------------------------------------------------- the callers

\* A caller calls make_extension(g) when no call is running; it catches the
\* RuntimeError of an earlier call and goes on.
Call(g) ==
    /\ frame[1].pc \in {"idle", "returned", "raised"}
    /\ ncalls < MaxCalls
    /\ frame' = [frame EXCEPT ![1] = EntryFrame(g)]
    /\ ncalls' = ncalls + 1
    /\ prev' = EnvState
    /\ UNCHANGED <<os_name, environ, initial, fs, clDirs, vc_available, vc_wrapped,
                   vc_layers, searches, warnings, pending, results, ext_modules,
                   aborted>>

\* Line 114: the comprehension calls make_extension(gl) for the next gl.
BatchCall ==
    /\ frame[1].pc = "idle"
    /\ pending # <<>>
    /\ frame' = [frame EXCEPT ![1] = EntryFrame(Head(pending))]
    /\ pending' = Tail(pending)
    /\ ncalls' = ncalls + 1
    /\ prev' = EnvState
    /\ UNCHANGED <<os_name, environ, initial, fs, clDirs, vc_available, vc_wrapped,
                   vc_layers, searches, warnings, results, ext_modules, aborted>>

\* Line 114: the descriptor returned joins the list; after the last one the
\* list is bound to ext_modules.
BatchCollect ==
    /\ frame[1].pc = "returned"
    /\ results' = Append(results, frame[1].ret)
    /\ ext_modules' = IF pending = <<>> THEN results' ELSE ext_modules
    /\ frame' = [frame EXCEPT ![1] = IdleFrame]
    /\ UNCHANGED <<os_name, environ, initial, fs, clDirs, vc_available, vc_wrapped,
                   vc_layers, ncalls, prev, searches, warnings, pending, aborted>>

\* Line 114: nothing catches the RuntimeError; the script ends with
\* ext_modules as line 15 left it.
BatchRaise ==
    /\ frame[1].pc = "raised"
    /\ ~aborted
    /\ aborted' = TRUE
    /\ UNCHANGED <<os_name, environ, initial, fs, clDirs, vc_available, vc_wrapped,
                   vc_layers, frame, ncalls, prev, searches, warnings, pending, results,
                   ext_modules>>

\* A caller that runs the two variant builds in parallel starts
\* make_extension(True) in slot 1 and make_extension(False) in slot 2.
Spawn(c) ==
    /\ frame[c].pc = "idle"
    /\ frame' = [frame EXCEPT ![c] = EntryFrame(c = 1)]
    /\ ncalls' = ncalls + 1
    /\ UNCHANGED <<os_name, environ, initial, fs, clDirs, vc_available, vc_wrapped,
                   vc_layers, prev, searches, warnings, pending, results, ext_modules,
                   aborted>>

\* Lines 23-30 applied to a simulated filesystem.
Locate ==
    /\ frame[1].pc = "idle"
    /\ frame' = [frame EXCEPT ![1] =
                    [@ EXCEPT !.cl_path = find_cl_path(fs), !.pc = "located"]]
    /\ searches' = searches + 1
    /\ UNCHANGED <<os_name, environ, initial, fs, clDirs, vc_available, vc_wrapped,
                   vc_layers, ncalls, prev, warnings, pending, results, ext_modules,
                   aborted>>

\* --------------------------------------------------- the initial states

\* The environment a user starts the script in: PATH is set; the telemetry
\* flag, the architecture list and LD_PRELOAD are set or not.
UserEnviron(tele, arch, pre) ==
    [n \in {"PATH"} \cup (IF tele THEN {"VSCMD_SKIP_SENDTELEMETRY"} ELSE {})
                    \cup (IF arch THEN {"TORCH_CUDA_ARCH_LIST"} ELSE {})
                    \cup (IF pre # <<>> THEN {"LD_PRELOAD"} ELSE {}) |->
        CASE n = "PATH" -> <<UserDir>>
          [] n = "VSCMD_SKIP_SENDTELEMETRY" -> <<"0">>
          [] n = "TORCH_CUDA_ARCH_LIST" -> <<"7.5">>
          [] n = "LD_PRELOAD" -> pre]

Environs ==
    {UserEnviron(t, a, p) : t \in BOOLEAN, a \in BOOLEAN, p \in {<<>>} \cup PreloadValues}

Dir(root, vs, edition, msvc) == [root |-> root, vs |-> vs, edition |-> edition, msvc |-> msvc]

\* The filesystems of the process-level specifications: no installation; one
\* Community toolset under Program Files (x86); a Professional toolset under
\* Program Files beside a newer Community one.
SampleFileSystems ==
    { {},
      {Dir(ProgramFilesX86, <<"2", "0", "1", "9">>, "Community", <<"1", "4", ".", "9">>)},
      {Dir(ProgramFiles, <<"2", "0", "1", "9">>, "Professional", <<"1", "4", ".", "1", "0">>),
       Dir(ProgramFiles, <<"2", "0", "2", "2">>, "Community", <<"1", "4", ".", "9">>)} }

\* The subsets of S of at most k elements.
RECURSIVE SubsetsUpTo(_, _)
SubsetsUpTo(S, k) ==
    IF k = 0 THEN {{}}
    ELSE LET P == SubsetsUpTo(S, k - 1)
         IN  P \cup {q \cup {x} : q \in P, x \in S}

\* What every specification starts from once os, environment and files are
\* chosen: line 15 has run, make_extension has not been called.
InitRest ==
    /\ vc_layers = 0
    /\ initial = EnvState
    /\ frame = [c \in Slots |-> IdleFrame]
    /\ ncalls = 0
    /\ prev = EnvState
    /\ searches = 0
    /\ warnings = 0
    /\ results = <<>>
    /\ ext_modules = <<>>
    /\ aborted = FALSE

InitProcess ==
    /\ os_name \in {"posix", "nt"}
    /\ environ \in Environs
    /\ fs \in SampleFileSystems
    /\ clDirs \in SUBSET (fs \cup {UserDir})
    /\ vc_available \in BOOLEAN
    /\ vc_wrapped \in {w \in BOOLEAN : w => vc_available}
    /\ InitRest

\* A process whose caller calls make_extension up to MaxCalls times with any gl.
Init ==
    /\ InitProcess
    /\ pending = <<>>

Next ==
    \/ \E g \in BOOLEAN : Call(g)
    \/ \E c \in Slots : Step(c)

Spec == Init /\ [][Next]_vars

\* The script itself: line 114 iterates [True, False].
InitBatch ==
    /\ InitProcess
    /\ pending = <<TRUE, FALSE>>

NextBatch ==
    \/ BatchCall
    \/ BatchCollect
    \/ BatchRaise
    \/ \E c \in Slots : Step(c)

SpecBatch == InitBatch /\ [][NextBatch]_vars

\* The two variant builds run in parallel over the one process environment.
InitConc ==
    /\ InitProcess
    /\ pending = <<>>

NextConc ==
    \/ \E c \in Slots : Spawn(c)
    \/ \E c \in Slots : Step(c)

SpecConc == InitConc /\ [][NextConc]_vars

\* find_cl_path alone, over every filesystem of at most MaxInstalls toolsets.
InitLocate ==
    /\ os_name = "nt"
    /\ environ = UserEnviron(FALSE, FALSE, <<>>)
    /\ fs \in SubsetsUpTo(AllInstallDirs, MaxInstalls)
    /\ clDirs = {}
    /\ vc_available = FALSE
    /\ vc_wrapped = FALSE
    /\ pending = <<>>
    /\ InitRest

NextLocate == Locate

SpecLocate == InitLocate /\ [][NextLocate]_vars

\* ------------------------------------------------------------ the claims

Finished(c) == frame[c].pc \in {"returned", "raised"}

IsPrefix(s, t) == Len(s) <= Len(t) /\ \A i \in 1..Len(s) : s[i] = t[i]

EditionSet == {Editions[i] : i \in 1..Len(Editions)}

\* C1: calling make_extension twice in sequence leaves the environment
\* state (os.environ and the wrapping of _get_vc_env) as the first call left
\* it: when the second or a later call has ended, the state is the one the
\* call was entered with.
C1_SecondCallChangesNothing ==
    (Finished(1) /\ ncalls >= 2) => EnvState = prev

\* C2: find_cl_path returns a match of the first edition of the list that
\* has a match under either root, whatever the version numbers; within that
\* edition the reverse-lexicographically first match under Program Files,
\* and a Program Files (x86) match only if Program Files has none for it.
C2_EditionPriority ==
    LET r == frame[1].cl_path
        have == {i \in 1..Len(Editions) : \E d \in fs : d.edition = Editions[i]}
    IN  (frame[1].pc = "located" /\ have # {}) =>
            LET top == CHOOSE i \in have : \A j \in have : i <= j
                pf == {d \in fs : d.edition = Editions[top] /\ d.root = ProgramFiles}
            IN  /\ r \in fs
                /\ r.edition = Editions[top]
                /\ pf # {} => /\ r \in pf
                              /\ \A d \in pf : ~StrLess(PathKey(r), PathKey(d))
                /\ r.root = ProgramFilesX86 => pf = {}

\* C2's case: a Community toolset with the greater version string beside a
\* Professional one, and the Professional one returned.
C2_Witness ==
    /\ frame[1].pc = "located"
    /\ frame[1].cl_path.edition = "Professional"
    /\ \E d \in fs : /\ d.edition = "Community"
                     /\ StrLess(PathKey(frame[1].cl_path), PathKey(d))

\* No directory of the filesystem matches the pattern for a listed edition.
NoEditionMatches == ~ \E d \in fs : d.edition \in EditionSet

\* C3: on nt, with cl.exe not on the search path and no edition matching
\* under either root, make_extension raises the compiler-not-found error
\* before any later statement, returns no descriptor, and line 114 binds no
\* descriptor list: the first call is the only one.
C3_ToolchainNotFound ==
    (os_name = "nt" /\ cl_not_on_path(initial.environ, clDirs) /\ NoEditionMatches) =>
        /\ frame[1].pc \in {"idle", "start", "where", "find", "raised"}
        /\ frame[1].ret.kind # "CUDAExtension"
        /\ frame[1].pc = "raised" => frame[1].ret = RuntimeError
        /\ results = <<>>
        /\ ext_modules = <<>>
        /\ ncalls <= 1
        /\ aborted => frame[1].pc = "raised"

C3_Witness ==
    /\ os_name = "nt"
    /\ cl_not_on_path(initial.environ, clDirs)
    /\ NoEditionMatches
    /\ aborted
    /\ frame[1].ret = RuntimeError
    /\ pending = <<FALSE>>

\* C4: the link flags of a descriptor depend on (gl, os) only: none for
\* gl = False; -lGL and -lEGL alone for gl = True on posix; one /LIBPATH
\* entry and then /DEFAULTLIB for gdi32, opengl32, user32, setgpu for
\* gl = True on nt.
C4_LinkFlags ==
    \A c \in Slots :
        frame[c].ret.kind = "CUDAExtension" =>
            LET l == frame[c].ret.extra_link_args
            IN  /\ ~frame[c].gl => l = <<>>
                /\ (frame[c].gl /\ os_name = "posix") => l = << <<"-lGL">>, <<"-lEGL">> >>
                /\ (frame[c].gl /\ os_name = "nt") =>
                       /\ Len(l) = 5
                       /\ l[1][1] = "/LIBPATH:"
                       /\ l[2] = <<"/DEFAULTLIB:", "gdi32">>
                       /\ l[3] = <<"/DEFAULTLIB:", "opengl32">>
                       /\ l[4] = <<"/DEFAULTLIB:", "user32">>
                       /\ l[5] = <<"/DEFAULTLIB:", "setgpu">>

C4_Witness ==
    /\ frame[1].pc = "returned"
    /\ frame[1].gl
    /\ os_name = "nt"
    /\ Len(frame[1].ret.extra_link_args) = 5

\* C5: no two sources of a descriptor have the same base name and different
\* extensions, and the rasterizer-only descriptor lists the two kernel files
\* as texture_kernel.cu and RasterImpl_kernel.cu.
C5_NoBaseNameCollision ==
    \A c \in Slots :
        frame[c].ret.kind = "CUDAExtension" =>
            LET s == frame[c].ret.sources
            IN  /\ \A i, j \in 1..Len(s) : s[i].stem = s[j].stem => s[i].ext = s[j].ext
                /\ ~frame[c].gl =>
                       /\ \E i \in 1..Len(s) : s[i].stem = "texture_kernel" /\ s[i].ext = ".cu"
                       /\ \E i \in 1..Len(s) :
                              s[i].stem = "RasterImpl_kernel" /\ s[i].ext = ".cu"

C5_Witness ==
    /\ frame[1].pc = "returned"
    /\ ~frame[1].gl
    /\ \E i, j \in 1..Len(frame[1].ret.sources) :
           /\ frame[1].ret.sources[i].stem = "texture"
           /\ frame[1].ret.sources[j].stem = "texture_kernel"

\* C6 as stated: after any sequence of calls no variable that was set has
\* been deleted, the prior PATH is a prefix of PATH, and every other
\* variable the user had supplied still carries the user's value.
C6_UserValuesKept ==
    \A n \in DOMAIN initial.environ :
        /\ n \in DOMAIN environ
        /\ n = "PATH" => IsPrefix(initial.environ[n], environ[n])
        /\ n # "PATH" => environ[n] = initial.environ[n]

\* C6 amended: no variable is deleted, the prior PATH is a prefix of PATH
\* and every variable but three keeps the user's value; of the three, PATH
\* only grows, TORCH_CUDA_ARCH_LIST holds the user's value or the fixed list
\* of line 81, and VSCMD_SKIP_SENDTELEMETRY holds the user's value or, on nt
\* only, '1'.
C6_MonotonicWrites ==
    \A n \in DOMAIN initial.environ :
        /\ n \in DOMAIN environ
        /\ n = "PATH" => IsPrefix(initial.environ[n], environ[n])
        /\ n \notin {"PATH", "TORCH_CUDA_ARCH_LIST", "VSCMD_SKIP_SENDTELEMETRY"} =>
               environ[n] = initial.environ[n]
        /\ n = "TORCH_CUDA_ARCH_LIST" => environ[n] \in {initial.environ[n], ArchList}
        /\ n = "VSCMD_SKIP_SENDTELEMETRY" =>
               \/ environ[n] = initial.environ[n]
               \/ os_name = "nt" /\ environ[n] = <<"1">>

\* C6's case: a user who had set all four variables, after a call that
\* appended to PATH and overwrote the architecture list and the telemetry flag.
C6_Witness ==
    /\ frame[1].pc = "returned"
    /\ DOMAIN initial.environ =
           {"PATH", "TORCH_CUDA_ARCH_LIST", "VSCMD_SKIP_SENDTELEMETRY", "LD_PRELOAD"}
    /\ Len(environ["PATH"]) > Len(initial.environ["PATH"])
    /\ environ["TORCH_CUDA_ARCH_LIST"] = ArchList
    /\ environ["TORCH_CUDA_ARCH_LIST"] # initial.environ["TORCH_CUDA_ARCH_LIST"]
    /\ environ["VSCMD_SKIP_SENDTELEMETRY"] = <<"1">>
    /\ environ["LD_PRELOAD"] = initial.environ["LD_PRELOAD"]

\* C7: over the batch of line 114 find_cl_path is called at most once, only
\* on nt and only when cl.exe was not reachable from the search path.
C7_SearchAtMostOnce ==
    /\ searches <= 1
    /\ searches > 0 => os_name = "nt" /\ cl_not_on_path(initial.environ, clDirs)

\* C8: after any number of sequential calls make_extension has put at most
\* one cache around _get_vc_env; a call entered with the marker present
\* leaves the routine as it was; off nt the routine is never wrapped.
C8_WrappedAtMostOnce ==
    /\ vc_layers <= 1
    /\ prev.vc_wrapped => (vc_layers = prev.vc_layers /\ vc_wrapped)
    /\ os_name # "nt" => (vc_layers = 0 /\ vc_wrapped = initial.vc_wrapped)

\* C8's case: on nt a first call wrapped the routine and a second call, which
\* found the marker, has returned.
C8_Witness ==
    /\ os_name = "nt"
    /\ ncalls = 2
    /\ frame[1].pc = "returned"
    /\ ~initial.vc_wrapped
    /\ prev.vc_wrapped
    /\ vc_layers = 1

\* What running the two calls one after the other gives, from the state the
\* process started in: the first call finds cl.exe missing from PATH exactly
\* when the second would have, unless the first appended a directory that
\* holds cl.exe.
SeqSearches ==
    os_name = "nt" /\ cl_not_on_path(initial.environ, clDirs)

SeqFails == SeqSearches /\ find_cl_path(fs) = None

SeqCopies ==
    IF SeqSearches /\ ~SeqFails
    THEN IF find_cl_path(fs) \in clDirs THEN 1 ELSE 2
    ELSE 0

SeqLayers ==
    IF os_name = "nt" /\ ~SeqFails /\ vc_available /\ ~initial.vc_wrapped THEN 1 ELSE 0

Copies(k, d) == [i \in 1..k |-> d]

SeqEnviron ==
    LET e1 == EnvSet(initial.environ, "PATH",
                     initial.environ["PATH"] \o Copies(SeqCopies, find_cl_path(fs)))
        e2 == IF SeqFails THEN e1 ELSE EnvSet(e1, "TORCH_CUDA_ARCH_LIST", ArchList)
    IN  IF os_name = "nt" /\ ~SeqFails
        THEN EnvSet(e2, "VSCMD_SKIP_SENDTELEMETRY", <<"1">>)
        ELSE e2

SeqDescriptor(g) ==
    IF SeqFails THEN RuntimeError
    ELSE CUDAExtension(PluginName(g), SourcePaths(SourceFiles(g), os_name),
                       LinkFlags(g, os_name, IF os_name = "nt" THEN LibDir ELSE <<>>),
                       [cxx |-> Opts, nvcc |-> Opts \o << <<"-lineinfo">> >>])

\* Under Spec (one call after the other) the second call ends in exactly
\* this state, whatever the two values of gl: the reference C9 compares with.
SequentialOutcome ==
    (Finished(1) /\ ncalls = 2) =>
        /\ environ = SeqEnviron
        /\ vc_layers = SeqLayers
        /\ frame[1].ret = SeqDescriptor(frame[1].gl)

BothFinished == Finished(1) /\ Finished(2)

\* The environment but for PATH.
NoPath(env) == [n \in DOMAIN env \ {"PATH"} |-> env[n]]

\* C9 as stated: whatever the interleaving of make_extension(True) and
\* make_extension(False), the final environment, the wrapping of the probe
\* routine and the two descriptors are those of a sequential run.
C9_AsSequential ==
    BothFinished =>
        /\ environ = SeqEnviron
        /\ vc_layers = SeqLayers
        /\ frame[1].ret = SeqDescriptor(TRUE)
        /\ frame[2].ret = SeqDescriptor(FALSE)

\* C9 amended: the two descriptors (or errors), the telemetry flag and the
\* architecture list are those of a sequential run; PATH ends as the initial
\* PATH followed by one or two copies of the located directory where a
\* sequential run appends it, and unchanged elsewhere; the probe routine
\* ends under one or two caches where a sequential run wraps it once, and
\* untouched elsewhere.
C9_Interleaved ==
    BothFinished =>
        /\ frame[1].ret = SeqDescriptor(TRUE)
        /\ frame[2].ret = SeqDescriptor(FALSE)
        /\ NoPath(environ) = NoPath(SeqEnviron)
        /\ \E k \in 0..2 :
               /\ environ["PATH"] = initial.environ["PATH"] \o Copies(k, find_cl_path(fs))
               /\ k = 0 <=> SeqCopies = 0
        /\ vc_layers \in 0..2
        /\ vc_layers = 0 <=> SeqLayers = 0
        /\ vc_wrapped = (initial.vc_wrapped \/ vc_layers > 0)

\* C9's case: both builds have returned, the located directory holds cl.exe
\* and is on PATH twice, and the probe routine is under two caches.
C9_Witness ==
    /\ BothFinished
    /\ find_cl_path(fs) \in clDirs
    /\ environ["PATH"] = initial.environ["PATH"] \o Copies(2, find_cl_path(fs))
    /\ vc_layers = 2
    /\ frame[1].ret.kind = "CUDAExtension"
    /\ frame[2].ret.kind = "CUDAExtension"

\* The phase of a statement in the order C10 gives: hazard guard, toolchain
\* and search path, sources, flags, emission (the architecture-list write,
\* which C10 does not place, may come anywhere before emission).
ClaimedPhase(label) ==
    CASE label \in {"preload", "telemetry", "probe", "wrap_get", "wrap_set"} -> 1
      [] label \in {"where", "find", "path_get", "path_set"} -> 2
      [] label = "sources" -> 3
      [] label = "flags" -> 4
      [] label = "emit" -> 5

Placed(log) == {i \in 1..Len(log) : log[i] \notin {"start", "arch"}}

GuardRan(log) == \E i \in 1..Len(log) : log[i] = "preload"

\* C10 as stated: in every execution the hazard-guard steps run first, then
\* toolchain resolution and the search-path mutation, then source
\* resolution, then flag assembly, and the descriptor is emitted last; a
\* compiler-not-found failure comes only after the hazard guard has run.
C10_GuardFirst ==
    \A c \in Slots :
        /\ \A i, j \in Placed(frame[c].log) :
               i < j => ClaimedPhase(frame[c].log[i]) <= ClaimedPhase(frame[c].log[j])
        /\ frame[c].ret = RuntimeError => GuardRan(frame[c].log)

\* The phase of a statement in the order of the code.
CodePhase(label) ==
    CASE label = "start" -> 0
      [] label \in {"where", "find", "path_get", "path_set"} -> 1
      [] label = "flags" -> 2
      [] label = "sources" -> 3
      [] label = "arch" -> 4
      [] label \in {"preload", "telemetry", "probe", "wrap_get", "wrap_set"} -> 5
      [] label = "emit" -> 6

\* C10 amended: in every execution toolchain resolution and the search-path
\* mutation run first, then flag assembly, then source resolution, then the
\* architecture-list write, then the hazard-guard steps, and the descriptor
\* is emitted last, after all of them; a compiler-not-found failure comes
\* before the hazard guard has run and leaves the environment as the call
\* found it.
C10_ToolchainFirst ==
    \A c \in Slots :
        LET log == frame[c].log
        IN  /\ \A i, j \in 1..Len(log) :
                   i < j => CodePhase(log[i]) <= CodePhase(log[j])
            /\ frame[c].ret = RuntimeError =>
                   /\ ~GuardRan(log)
                   /\ log = <<"start", "where", "find">>
                   /\ EnvState = prev
            /\ frame[c].pc = "returned" =>
                   /\ log[Len(log)] = "emit"
                   /\ \A l \in {"flags", "sources", "arch", "preload", "telemetry"} :
                          \E i \in 1..Len(log) : log[i] = l

\* C10's case: a call on nt that appended to PATH and wrapped the probe
\* routine has returned.
C10_Witness ==
    /\ frame[1].pc = "returned"
    /\ \E i, j \in 1..Len(frame[1].log) :
           frame[1].log[i] = "path_set" /\ frame[1].log[j] = "wrap_set"

====
